---- MODULE Spec2Model ----
(***************************************************************************)
(* Model of the RAG notebook (src/RAG.ipynb): the text normalizer and the  *)
(* page-aware chunker (clean_text, get_chunks), the document indexer and   *)
(* the collection bootstrap (insert_document, ensure_collection, Phase 1   *)
(* cell), and the two response-streaming loops (cells 3a and 3b).          *)
(*                                                                         *)
(* Text is a sequence of one-character strings, so that split, join,       *)
(* strip and the "[Page no. N]" wrapper are computed as the code computes  *)
(* them.                                                                   *)
(***************************************************************************)
EXTENDS Integers, Sequences, FiniteSets, TLC

VARIABLES
    \* get_chunks(pages, max_words)
    pages,          \* the raw text of each page, in page order
    max_words,      \* the max_words argument
    text_tokens,    \* list of (words, page_number) pairs, amended in place
    chunks,         \* list of (chunk, page_number) pairs
    idx,            \* outer loop: position in text_tokens (1-based here)
    i,              \* inner loop: window offset in words
    pc,             \* "call", "loop", "done" ("off" when get_chunks is not run)
    \* Phase 1 cell: the input directory, the store, the bootstrap runs
    files,              \* stems of the *.pdf files of db_files
    doc_pages,          \* the pages PdfReader gives for each file
    collection_exists,  \* the store holds the collection "harry_potter"
    collection_records, \* the (id, document) records of the collection
    collection_status,  \* what ensure_collection returned to the current run
    todo,               \* files the glob loop has still to visit
    bpc,                \* "idle" between runs, "ingest" in the loop ("off")
    run,                \* number of the current (latest) run of the cell
    created_in,         \* history: the runs that created the collection
    add_log,            \* history: every collection.add call made
    \* cell 3a: the hosted backend's stream
    responses,      \* the fragments generate_text_stream yields, in order
    count,          \* enumerate's counter: fragments consumed so far
    stdout,         \* the characters written to the output
    wpc,            \* "loop", "done" ("off")
    \* cell 3b: the local server's stream
    events,         \* the byte chunks aiter_bytes yields, in order
    pos,            \* chunks consumed so far
    data,           \* the name data: unbound, or bound to the last parsed payload
    printed,        \* the characters written to the output
    lpc             \* "loop", "done", "NameError" ("off")

chunkVars == <<pages, max_words, text_tokens, chunks, idx, i, pc>>

bootVars == <<files, doc_pages, collection_exists, collection_records,
              collection_status, todo, bpc, run, created_in, add_log>>

watsonxVars == <<responses, count, stdout, wpc>>

llamaVars == <<events, pos, data, printed, lpc>>

vars == <<chunkVars, bootVars, watsonxVars, llamaVars>>

----------------------------------------------------------------------------
(* Bounds of the model *)

MaxPages == 3
MaxPageWords == 2
MaxMaxWords == 3
MaxRuns == 3
MaxFragments == 3

----------------------------------------------------------------------------
(* Generic helpers on sequences *)

Last(s) == s[Len(s)]

\* f[lo] \o f[lo + 1] \o ... \o f[hi], by halves
RECURSIVE ConcatRange(_, _, _)
ConcatRange(f, lo, hi) ==
    IF lo > hi THEN <<>>
    ELSE IF lo = hi THEN f[lo]
    ELSE LET mid == (lo + hi) \div 2
         IN  ConcatRange(f, lo, mid) \o ConcatRange(f, mid + 1, hi)

Flatten(ss) == ConcatRange(ss, 1, Len(ss))

\* str(n) for n >= 0, as a sequence of digit characters
DigitChar(d) == <<"0", "1", "2", "3", "4", "5", "6", "7", "8", "9">>[d + 1]

RECURSIVE Str(_)
Str(n) == IF n < 10 THEN <<DigitChar(n)>> ELSE Str(n \div 10) \o <<DigitChar(n % 10)>>

----------------------------------------------------------------------------
(* clean_text, str.split(" "), " ".join, str.strip *)

\* the characters matched by \s that occur in the modelled texts
Whitespace == {" ", "\n", "\t"}

\* t.replace(old, new) for one-character old and new
Replace(t, old, new) == [p \in 1..Len(t) |-> IF t[p] = old THEN new ELSE t[p]]

\* re.sub(r"\s+", " ", t): every maximal run of whitespace becomes one space
Collapse(t) ==
    Flatten([p \in 1..Len(t) |->
                IF t[p] \notin Whitespace THEN <<t[p]>>
                ELSE IF p > 1 /\ t[p - 1] \in Whitespace THEN <<>>
                ELSE <<" ">>])

clean_text(raw_text) == Collapse(Replace(raw_text, "\n", " "))

\* t.split(" "): the pieces between single spaces; "" gives [""]
RECURSIVE SplitRange(_, _, _)
SplitRange(t, lo, hi) ==
    IF lo > hi THEN << <<>> >>
    ELSE IF lo = hi THEN (IF t[lo] = " " THEN << <<>>, <<>> >> ELSE << <<t[lo]>> >>)
    ELSE LET mid == (lo + hi) \div 2
             l == SplitRange(t, lo, mid)
             r == SplitRange(t, mid + 1, hi)
         IN  SubSeq(l, 1, Len(l) - 1) \o << l[Len(l)] \o r[1] >> \o SubSeq(r, 2, Len(r))

Split(t) == SplitRange(t, 1, Len(t))

\* " ".join(ws)
Join(ws) == Flatten([k \in 1..Len(ws) |-> (IF k > 1 THEN <<" ">> ELSE <<>>) \o ws[k]])

\* t.strip(): leading and trailing whitespace removed
Strip(t) ==
    LET solid == {p \in 1..Len(t) : t[p] \notin Whitespace}
    IN  IF solid = {} THEN <<>>
        ELSE LET lo == CHOOSE p \in solid : \A q \in solid : p <= q
                 hi == CHOOSE p \in solid : \A q \in solid : q <= p
             IN  SubSeq(t, lo, hi)

----------------------------------------------------------------------------
(* The pages handed to get_chunks: page k holds n distinct words, named    *)
(* after the page and their position, separated by runs of whitespace,     *)
(* with optional leading or trailing whitespace as PDF extraction leaves.  *)

Letters == <<"a", "b", "c", "d", "e", "f", "g", "h">>

Word(k, j) == <<Letters[k]>> \o Str(j)

Gap(j) == IF j % 2 = 1 THEN <<"\n">> ELSE <<" ", "\t">>

\* the first n words of page k, with the gaps between them
WordsText(k, n) ==
    Flatten([j \in 1..n |-> Word(k, j) \o (IF j < n THEN Gap(j) ELSE <<>>)])

\* a page without words is empty or one whitespace character
PageShapes ==
    {sh \in [n : 0..MaxPageWords, ws : {"none", "lead", "trail"}] : sh.n = 0 => sh.ws # "trail"}

PageText(k, shape) ==
    (IF shape.ws = "lead" THEN <<" ">> ELSE <<>>)
    \o WordsText(k, shape.n)
    \o (IF shape.ws = "trail" THEN <<"\n">> ELSE <<>>)

Documents ==
    UNION {{[k \in 1..np |-> PageText(k, sh[k])] : sh \in [1..np -> PageShapes]} : np \in 0..MaxPages}

\* page.page_number: the page's zero-based position in the document
PageNumber(k) == k - 1

----------------------------------------------------------------------------
(* get_chunks *)

\* line 136: one (words, page_number) pair per page
Tokenize(ps) ==
    [k \in 1..Len(ps) |-> [words |-> Split(clean_text(ps[k])), page_number |-> PageNumber(k)]]

\* words[i:i + max_words]
Window(words, off, mw) ==
    SubSeq(words, off + 1, IF off + mw < Len(words) THEN off + mw ELSE Len(words))

\* the condition of lines 142-143; n is the 1-based position of the current
\* page, so len(text_tokens) != idx + 1 reads npages # n
ShouldCarry(words, chunk, off, mw, npages, n) ==
    (off + mw) > Len(words) /\ Len(chunk) < mw /\ npages # n

\* a carry that appends the remainder after the next page's words
MergeAppended(chunk, next_page) ==
    [words |-> next_page.words \o chunk, page_number |-> next_page.page_number]

\* line 145: chunk + next_page[0], under next_page[1]
Merge(chunk, next_page) ==
    [words |-> chunk \o next_page.words, page_number |-> next_page.page_number]

\* a carry that stores the current page's number with the merged list
CarryForwardRelabelled(tt, n, chunk) ==
    [tt EXCEPT ![n + 1] = [words |-> chunk \o tt[n + 1].words, page_number |-> tt[n].page_number]]

\* lines 144-145
CarryForward(tt, n, chunk) == [tt EXCEPT ![n + 1] = Merge(chunk, tt[n + 1])]

\* lines 147-148: the display string of a chunk
Prefix == <<"[", "P", "a", "g", "e", " ", "n", "o", ".", " ">>

FormatChunk(chunk, page_number) ==
    Prefix \o Str(page_number) \o <<"]", " ", "\"">> \o Strip(Join(chunk)) \o <<"\"">>

\* line 149
EmitChunk(chunk, page_number) ==
    [chunk |-> FormatChunk(chunk, page_number), page_number |-> page_number]

\* lines 141-149: one iteration of the inner loop on page n at offset off
WindowResult(tt, cs, n, off, mw) ==
    LET words == tt[n].words
        page_number == tt[n].page_number
        chunk == Window(words, off, mw)
    IN  IF ShouldCarry(words, chunk, off, mw, Len(tt), n)
        THEN [text_tokens |-> CarryForward(tt, n, chunk), chunks |-> cs]
        ELSE [text_tokens |-> tt, chunks |-> Append(cs, EmitChunk(chunk, page_number))]

\* lines 139-151: the two loops run to the end
RECURSIVE ChunkLoop(_, _, _, _, _)
ChunkLoop(tt, cs, n, off, mw) ==
    IF n > Len(tt) THEN cs
    ELSE IF off >= Len(tt[n].words) THEN ChunkLoop(tt, cs, n + 1, 0, mw)
    ELSE LET r == WindowResult(tt, cs, n, off, mw)
         IN  ChunkLoop(r.text_tokens, r.chunks, n, off + mw, mw)

\* lines 135-151
get_chunks(ps, mw) == ChunkLoop(Tokenize(ps), <<>>, 1, 0, mw)

----------------------------------------------------------------------------
(* Reading a chunk back: the wrapper stripped, and the words of the text   *)

FirstIndex(t, c) == CHOOSE p \in 1..Len(t) : t[p] = c /\ \A q \in 1..(p - 1) : t[q] # c

\* the text between the opening quote and the closing quote
Unwrap(text) == SubSeq(text, FirstIndex(text, "\"") + 1, Len(text) - 1)

\* the digits between "[Page no. " and "]"
LabelOf(text) == SubSeq(text, Len(Prefix) + 1, FirstIndex(text, "]") - 1)

IsWord(w) == w # <<>>

\* the words of a list of tokens: the tokens that are not empty strings
WordsOf(tokens) == SelectSeq(tokens, IsWord)

ChunkWords(text) == WordsOf(Split(Unwrap(text)))

\* the document's normalized word sequence, page after page
DocWords(ps) == Flatten([k \in 1..Len(ps) |-> WordsOf(Split(clean_text(ps[k])))])

EmittedWords(cs) == Flatten([k \in 1..Len(cs) |-> ChunkWords(cs[k].chunk)])

----------------------------------------------------------------------------
(* insert_document and the store *)

\* max_words: int = 150
DefaultMaxWords == 150

\* line 156: document_path.stem.replace(" ", "-").replace("_", "-")
document_name(stem) == Replace(Replace(stem, " ", "-"), "_", "-")

\* line 164: f"{document_name}_p{page_number}-{chunk_index}"
ChunkId(name, page_number, chunk_index) ==
    name \o <<"_", "p">> \o Str(page_number) \o <<"-">> \o Str(chunk_index)

\* lines 163-164: chunk_index is enumerate's zero-based position
document_ids(stem, cs) ==
    [k \in 1..Len(cs) |-> ChunkId(document_name(stem), cs[k].page_number, k - 1)]

\* line 165
document_chunks(cs) == [k \in 1..Len(cs) |-> cs[k].chunk]

\* collection.add(documents, ids): a record is stored under each id the
\* collection does not hold yet; an id it already holds keeps its record
StoreAdd(records, documents, ids) ==
    records \cup {[id |-> ids[k], document |-> documents[k]] :
                     k \in {n \in 1..Len(ids) : \A r \in records : r.id # ids[n]}}

\* lines 119-126: get_collection raises ValueError exactly when the
\* collection is absent; created is whether get_or_create_collection ran
ensure_collection_always_creates(exists) ==
    [status |-> "COLLECTION_CREATED", created |-> TRUE]

ensure_collection(exists) ==
    IF exists THEN [status |-> "COLLECTION_EXISTS", created |-> FALSE]
    ELSE [status |-> "COLLECTION_CREATED", created |-> TRUE]

----------------------------------------------------------------------------
(* The input directory of the bootstrap runs *)

FileStems == {<<"a", " ", "b">>, <<"a", "_", "b">>, <<"a", "b">>}

\* two pages that fit one window of DefaultMaxWords words
ShortDoc == <<WordsText(1, 2), WordsText(2, 1)>>

\* a first page one word longer than a window, and a second page
LongDoc == <<WordsText(1, DefaultMaxWords + 1), <<" ">> \o WordsText(2, 1)>>

BootDocs == {ShortDoc, LongDoc}

ChunkOff ==
    /\ pages = <<>>
    /\ max_words = 0
    /\ text_tokens = <<>>
    /\ chunks = <<>>
    /\ idx = 0
    /\ i = 0
    /\ pc = "off"

BootOff ==
    /\ files = {}
    /\ doc_pages = <<>>
    /\ collection_exists = FALSE
    /\ collection_records = {}
    /\ collection_status = "NONE"
    /\ todo = {}
    /\ bpc = "off"
    /\ run = 0
    /\ created_in = {}
    /\ add_log = {}

WatsonxOff ==
    /\ responses = <<>>
    /\ count = 0
    /\ stdout = <<>>
    /\ wpc = "off"

\* cell 3b, before line 473 has ever assigned data
Unbound == [bound |-> FALSE, stop |-> FALSE, content |-> <<>>]

LlamaOff ==
    /\ events = <<>>
    /\ pos = 0
    /\ data = Unbound
    /\ printed = <<>>
    /\ lpc = "off"

----------------------------------------------------------------------------
(* Specification of get_chunks, one action per loop step *)

Init ==
    /\ pages \in Documents
    /\ max_words \in 1..MaxMaxWords
    /\ text_tokens = <<>>
    /\ chunks = <<>>
    /\ idx = 0
    /\ i = 0
    /\ pc = "call"
    /\ BootOff
    /\ WatsonxOff
    /\ LlamaOff

\* lines 136-137
Enter ==
    /\ pc = "call"
    /\ text_tokens' = Tokenize(pages)
    /\ chunks' = <<>>
    /\ idx' = 1
    /\ i' = 0
    /\ pc' = "loop"
    /\ UNCHANGED <<pages, max_words>>
    /\ UNCHANGED <<bootVars, watsonxVars, llamaVars>>

\* lines 140-149: one iteration of the inner loop
WindowStep ==
    /\ pc = "loop"
    /\ idx <= Len(text_tokens)
    /\ i < Len(text_tokens[idx].words)
    /\ LET r == WindowResult(text_tokens, chunks, idx, i, max_words)
       IN  /\ text_tokens' = r.text_tokens
           /\ chunks' = r.chunks
    /\ i' = i + max_words
    /\ UNCHANGED <<pages, max_words, idx, pc>>
    /\ UNCHANGED <<bootVars, watsonxVars, llamaVars>>

\* line 139: the inner range is exhausted, the outer loop advances
NextPage ==
    /\ pc = "loop"
    /\ idx <= Len(text_tokens)
    /\ i >= Len(text_tokens[idx].words)
    /\ idx' = idx + 1
    /\ i' = 0
    /\ UNCHANGED <<pages, max_words, text_tokens, chunks, pc>>
    /\ UNCHANGED <<bootVars, watsonxVars, llamaVars>>

\* line 151
Return ==
    /\ pc = "loop"
    /\ idx > Len(text_tokens)
    /\ pc' = "done"
    /\ UNCHANGED <<pages, max_words, text_tokens, chunks, idx, i>>
    /\ UNCHANGED <<bootVars, watsonxVars, llamaVars>>

Next == Enter \/ WindowStep \/ NextPage \/ Return

Spec == Init /\ [][Next]_vars

----------------------------------------------------------------------------
(* Specification of the bootstrap runs (Phase 1 cell), run after run       *)
(* against the same store and the same input directory                     *)

BootInit ==
    /\ ChunkOff
    /\ WatsonxOff
    /\ LlamaOff
    /\ files \in SUBSET FileStems
    /\ doc_pages \in [files -> BootDocs]
    /\ collection_exists = FALSE
    /\ collection_records = {}
    /\ collection_status = "NONE"
    /\ todo = {}
    /\ bpc = "idle"
    /\ run = 0
    /\ created_in = {}
    /\ add_log = {}

\* lines 208-215: a run starts; ensure_collection decides its branch
StartRun ==
    /\ bpc = "idle"
    /\ run < MaxRuns
    /\ LET r == ensure_collection(collection_exists)
       IN  /\ collection_status' = r.status
           /\ collection_exists' = (collection_exists \/ r.created)
           /\ created_in' = IF r.created THEN created_in \cup {run + 1} ELSE created_in
           /\ bpc' = IF r.status = "COLLECTION_EXISTS" THEN "idle" ELSE "ingest"
           /\ todo' = IF r.status = "COLLECTION_EXISTS" THEN {} ELSE files
    /\ run' = run + 1
    /\ UNCHANGED <<files, doc_pages, collection_records, add_log>>
    /\ UNCHANGED <<chunkVars, watsonxVars, llamaVars>>

\* lines 216-217, 154-170: insert_document on the next file glob yields
InsertDocument(f) ==
    /\ bpc = "ingest"
    /\ f \in todo
    /\ LET cs == get_chunks(doc_pages[f], DefaultMaxWords)
           ids == document_ids(f, cs)
           docs == document_chunks(cs)
       IN  /\ collection_records' = StoreAdd(collection_records, docs, ids)
           /\ add_log' = add_log \cup {[run |-> run, file |-> f, ids |-> ids]}
    /\ todo' = todo \ {f}
    /\ UNCHANGED <<files, doc_pages, collection_exists, collection_status, bpc, run, created_in>>
    /\ UNCHANGED <<chunkVars, watsonxVars, llamaVars>>

\* line 155: PdfReader raises on the file; the error ends the run
ReaderFails(f) ==
    /\ bpc = "ingest"
    /\ f \in todo
    /\ bpc' = "idle"
    /\ todo' = {}
    /\ UNCHANGED <<files, doc_pages, collection_exists, collection_records,
                   collection_status, run, created_in, add_log>>
    /\ UNCHANGED <<chunkVars, watsonxVars, llamaVars>>

\* lines 167-170: collection.add is called and raises; the error ends the run
AddFails(f) ==
    /\ bpc = "ingest"
    /\ f \in todo
    /\ LET cs == get_chunks(doc_pages[f], DefaultMaxWords)
       IN  add_log' = add_log \cup {[run |-> run, file |-> f, ids |-> document_ids(f, cs)]}
    /\ bpc' = "idle"
    /\ todo' = {}
    /\ UNCHANGED <<files, doc_pages, collection_exists, collection_records,
                   collection_status, run, created_in>>
    /\ UNCHANGED <<chunkVars, watsonxVars, llamaVars>>

\* line 216: glob is exhausted, the run completes
FinishRun ==
    /\ bpc = "ingest"
    /\ todo = {}
    /\ bpc' = "idle"
    /\ UNCHANGED <<files, doc_pages, collection_exists, collection_records,
                   collection_status, todo, run, created_in, add_log>>
    /\ UNCHANGED <<chunkVars, watsonxVars, llamaVars>>

BootNext ==
    \/ StartRun
    \/ \E f \in FileStems : InsertDocument(f)
    \/ \E f \in FileStems : ReaderFails(f)
    \/ \E f \in FileStems : AddFails(f)
    \/ FinishRun

BootSpec == BootInit /\ [][BootNext]_vars

----------------------------------------------------------------------------
(* Properties of get_chunks *)

\* the page a word of the input was written on (words are named after it)
Origin(w) == CHOOSE k \in 1..Len(Letters) : Letters[k] = w[1]

\* C1: when get_chunks returns, the words of the emitted chunks, wrapper
\* stripped, taken in emission order, are the document's normalized word
\* sequence (the words of the pages in page order): none dropped, none
\* duplicated, none moved, carried words included.
C1_WordsPreserved == pc = "done" => EmittedWords(chunks) = DocWords(pages)

\* C1 witness: a finished run with several chunks, one of which mixes words
\* carried from an earlier page with words of a later page
C1_Witness ==
    /\ pc = "done"
    /\ Len(chunks) >= 2
    /\ \E k \in 1..Len(chunks) :
          LET ws == ChunkWords(chunks[k].chunk)
          IN  \E a, b \in 1..Len(ws) : a < b /\ Origin(ws[a]) < Origin(ws[b])

\* C2 (as claimed): with at least two pages and more than max_words words in
\* all, every emitted chunk but the last holds at least max_words words.
C2_OnlyLastShort ==
    (pc = "done" /\ Len(pages) >= 2 /\ Len(DocWords(pages)) > max_words)
        => \A k \in 1..(Len(chunks) - 1) : Len(ChunkWords(chunks[k].chunk)) >= max_words

\* C3 (as claimed): a document that holds a word, and whose total word count
\* is at most max_words, yields exactly one chunk, holding every word,
\* labelled with the last page.
C3_SingleChunk ==
    (pc = "done" /\ DocWords(pages) # <<>> /\ Len(DocWords(pages)) <= max_words)
        => /\ Len(chunks) = 1
           /\ ChunkWords(chunks[1].chunk) = DocWords(pages)
           /\ chunks[1].page_number = PageNumber(Len(pages))

\* one step of get_chunks keeps every stored page number, and labels the
\* chunk it emits with the number stored beside the current page's list
C7_Step ==
    /\ pc = "loop" =>
          /\ Len(text_tokens') = Len(text_tokens)
          /\ \A k \in 1..Len(text_tokens) :
                text_tokens'[k].page_number = text_tokens[k].page_number
    /\ Len(chunks') > Len(chunks) =>
          LET c == Last(chunks')
          IN  /\ c.page_number = text_tokens[idx].page_number
              /\ LabelOf(c.chunk) = Str(text_tokens[idx].page_number)
              /\ c.page_number = PageNumber(idx)
              /\ LET ws == ChunkWords(c.chunk)
                 IN  \A a \in 1..Len(ws) :
                        Origin(ws[a]) # idx =>
                            /\ Origin(ws[a]) < idx
                            /\ c.page_number # PageNumber(Origin(ws[a]))

\* C7: a chunk is labelled, in the returned page_number and in its
\* "[Page no. N]" prefix, with the number stored beside the word list it is
\* drawn from when it is emitted, which is the number of that page itself: a
\* carry-forward never changes a stored number, so a word carried from an
\* earlier page is labelled with the page it was merged into, not with its own.
C7_Labels == [][C7_Step]_vars

\* C7 witness: an emitted chunk holds a word carried from an earlier page
C7_Witness ==
    \E k \in 1..Len(chunks) :
        \E a \in 1..Len(ChunkWords(chunks[k].chunk)) :
            PageNumber(Origin(ChunkWords(chunks[k].chunk)[a])) # chunks[k].page_number

\* a step taken on a page without words that has received nothing emits no
\* chunk and changes no word list
C8_Step ==
    (/\ pc = "loop"
     /\ idx <= Len(text_tokens)
     /\ text_tokens[idx].words = Split(clean_text(pages[idx]))
     /\ WordsOf(text_tokens[idx].words) = <<>>)
        => (chunks' = chunks /\ text_tokens' = text_tokens)

\* C8 (as claimed): a page whose normalized text has no word, and whose list
\* has received no carried token, contributes no window and nothing to carry:
\* no chunk is emitted for it, last page or not, and no token is prepended to
\* the next page's list.
C8_EmptyPageSilent == [][C8_Step]_vars

----------------------------------------------------------------------------
(* Cell 3a: the loop over the hosted backend's stream *)

\* the block character U+258C that print("▌") writes, as one character
Cursor == "U+258C"

Fragments == {<<>>, <<"H", "i">>, <<"!">>}

Streams(S) == UNION {[1..n -> S] : n \in 0..MaxFragments}

\* a loop body that writes every fragment
WrittenAlways(c, response) == response

\* line 438: print("▌") if count == 0 else print(response, end="")
Written(c, response) == IF c = 0 THEN <<Cursor, "\n">> ELSE response

WatsonxInit ==
    /\ ChunkOff
    /\ BootOff
    /\ LlamaOff
    /\ responses \in Streams(Fragments)
    /\ count = 0
    /\ stdout = <<>>
    /\ wpc = "loop"

\* lines 437-438: one iteration
WatsonxStep ==
    /\ wpc = "loop"
    /\ count < Len(responses)
    /\ stdout' = stdout \o Written(count, responses[count + 1])
    /\ count' = count + 1
    /\ UNCHANGED <<responses, wpc>>
    /\ UNCHANGED <<chunkVars, bootVars, llamaVars>>

\* line 437: the stream is exhausted
WatsonxEnd ==
    /\ wpc = "loop"
    /\ count = Len(responses)
    /\ wpc' = "done"
    /\ UNCHANGED <<responses, count, stdout>>
    /\ UNCHANGED <<chunkVars, bootVars, llamaVars>>

WatsonxNext == WatsonxStep \/ WatsonxEnd

WatsonxSpec == WatsonxInit /\ [][WatsonxNext]_vars

\* C10 (as claimed): the text written is the concatenation of all the
\* fragments in arrival order, the first included.
C10_AllFragments == wpc = "done" => stdout = Flatten(responses)

\* C10 (amended): the text written is the cursor line followed by the
\* concatenation, in arrival order, of the fragments after the first; the
\* first fragment is not written, and an empty stream writes nothing.
C10_AllButFirst ==
    /\ wpc = "loop" /\ count >= 1 =>
          stdout = <<Cursor, "\n">> \o Flatten(SubSeq(responses, 2, count))
    /\ wpc = "done" =>
          stdout = IF responses = <<>> THEN <<>>
                   ELSE <<Cursor, "\n">> \o Flatten(Tail(responses))

\* C10 witness: a finished stream of several fragments whose first and later
\* fragments hold text
C10_Witness ==
    /\ wpc = "done"
    /\ Len(responses) >= 2
    /\ responses[1] # <<>>
    /\ responses[2] # <<>>

----------------------------------------------------------------------------
(* Cell 3b: the loop over the local server's stream *)

\* what str(data['timings']) writes, as one character
Timings == "{timings}"

\* a byte chunk: ok is whether json.loads(chunk.decode('utf-8')[6:]) returns;
\* stop and content are the fields of the payload it returns
Events ==
    {[ok |-> TRUE, stop |-> FALSE, content |-> <<"H", "i">>],
     [ok |-> TRUE, stop |-> FALSE, content |-> <<"!">>],
     [ok |-> TRUE, stop |-> TRUE, content |-> <<>>],
     [ok |-> FALSE, stop |-> FALSE, content |-> <<>>]}

\* lines 472-475: data after the try statement
Parsed(d, event) ==
    IF event.ok THEN [bound |-> TRUE, stop |-> event.stop, content |-> event.content] ELSE d

\* lines 476-480: what the if statement writes
Output(d) ==
    IF d.stop = FALSE THEN d.content
    ELSE <<"\n", "\n", "\n", Timings, "\n">>

LlamaInit ==
    /\ ChunkOff
    /\ BootOff
    /\ WatsonxOff
    /\ events \in Streams(Events)
    /\ pos = 0
    /\ data = Unbound
    /\ printed = <<>>
    /\ lpc = "loop"

\* lines 471-480: one iteration; reading data while it is unbound raises
\* NameError, which ends the loop
LlamaStep ==
    /\ lpc = "loop"
    /\ pos < Len(events)
    /\ pos' = pos + 1
    /\ data' = Parsed(data, events[pos + 1])
    /\ IF ~data'.bound
       THEN lpc' = "NameError" /\ printed' = printed
       ELSE lpc' = lpc /\ printed' = printed \o Output(data')
    /\ UNCHANGED events
    /\ UNCHANGED <<chunkVars, bootVars, watsonxVars>>

\* line 471: the stream is exhausted
LlamaEnd ==
    /\ lpc = "loop"
    /\ pos = Len(events)
    /\ lpc' = "done"
    /\ UNCHANGED <<events, pos, data, printed>>
    /\ UNCHANGED <<chunkVars, bootVars, watsonxVars>>

LlamaNext == LlamaStep \/ LlamaEnd

LlamaSpec == LlamaInit /\ [][LlamaNext]_vars

IsContentChar(c) == c \notin {"\n", Timings}

WellFormedContent(event) == IF event.ok /\ ~event.stop THEN event.content ELSE <<>>

\* C9 (as claimed): the loop raises no error, and the content it has written
\* when it ends is the concatenation, in arrival order, of the content of the
\* well-formed fragments with stop = false, each once; a fragment that fails
\* to parse adds nothing.
C9_MalformedDiscarded ==
    /\ lpc # "NameError"
    /\ lpc = "done" =>
          SelectSeq(printed, IsContentChar)
              = Flatten([k \in 1..Len(events) |-> WellFormedContent(events[k])])

----------------------------------------------------------------------------
(* Properties of the bootstrap runs *)

\* the runs in which collection.add was called with the chunks of file f
RunsSubmitting(f) == {e.run : e \in {x \in add_log : x.file = f}}

\* C4: a run that found the collection present (COLLECTION_EXISTS) created
\* nothing and called add not once; and the chunks of a PDF are submitted
\* to the store in at most one run.
C4_AtMostOnce ==
    /\ collection_status = "COLLECTION_EXISTS" =>
          /\ run \notin created_in
          /\ \A e \in add_log : e.run # run
    /\ \A f \in files : Cardinality(RunsSubmitting(f)) <= 1

\* C4 witness: a later run found the collection that an earlier run had
\* created and filled with a PDF's chunks
C4_Witness ==
    /\ run >= 2
    /\ collection_status = "COLLECTION_EXISTS"
    /\ \E f \in files : RunsSubmitting(f) # {}

\* the collection holds every chunk of file f
Holds(f) ==
    LET cs == get_chunks(doc_pages[f], DefaultMaxWords)
    IN  \A k \in 1..Len(cs) : \E r \in collection_records : r.document = cs[k].chunk

\* C5 (as claimed): the collection is created at most once, and a run that
\* finds it present finds in it the chunks of every PDF of the directory.
C5_NeverPartial ==
    /\ Cardinality(created_in) <= 1
    /\ collection_status = "COLLECTION_EXISTS" => \A f \in files : Holds(f)

NoRepeat(ids) == \A a, b \in 1..Len(ids) : a # b => ids[a] # ids[b]

\* C6 (as claimed): the identifiers submitted during a run are pairwise
\* distinct, within one document and across distinct PDF files.
C6_IdsDistinct ==
    \A e1, e2 \in add_log :
        /\ NoRepeat(e1.ids)
        /\ (e1.run = e2.run /\ e1.file # e2.file) =>
              \A a \in 1..Len(e1.ids), b \in 1..Len(e2.ids) : e1.ids[a] # e2.ids[b]

====
